---- MODULE Spec2Model ----
(* Model of the research agent's orchestration core:                        *)
(*   state_machine.py  - ResearchAgentStateMachine (lifecycle FSM)          *)
(*   models.py         - ResearchStep / ResearchPlan / AgentContext         *)
(*   planner.py        - ResearchPlanner (plan building, replanning,        *)
(*                       scheduler)                                         *)
(*   executor.py       - PlanExecutor (retry loop, strategy selection)      *)
(*   agent.py          - ResearchAgent.research / _execute_research_workflow*)
EXTENDS Integers, Sequences, FiniteSets, TLC

(***************************************************************************)
(* Bounds of the model                                                     *)
(***************************************************************************)
\* readings of datetime.now() (one per state transition / new context)
MaxClock == 7
\* number of steps in one response of the planning LLM
MaxLLMSteps == 2
\* largest step number / dependency number the planning LLM writes
MaxLLMNum == 2
\* most dependencies the planning LLM writes for one step
MaxLLMDeps == 1
\* longest duration of one reasoning attempt, in clock units
MaxElapsed == 1
\* longest list of results given to should_terminate_early on its own
MaxResults == 4
\* the thresholds given to should_terminate_early on its own: k / ThresholdDen
ThresholdDen == 4
\* most thoughts in one response of the tree search's LLM (its prompt asks for
\* 2 or 3; the mock generator gives 2)
MaxThoughts == 3
\* thoughts in one answer of _generate_thoughts, in the node-by-node search
MaxChildren == 2
\* nodes of one thought tree, in the node-by-node search
MaxNodes == 7
\* most indicator words of one kind found in a task by _select_strategy
MaxIndicators == 3
\* most results in execution_results when the call is followed without its logs
MaxLoopResults == 10
\* longest transition history two agents build together
MaxSharedHistory == 5

(***************************************************************************)
(* Program constants                                                       *)
(***************************************************************************)
\* config.MAX_PLAN_STEPS
MAX_PLAN_STEPS == 10
\* PlanExecutor.max_retries
max_retries == 3
\* TreeOfThoughtsEngine.max_depth
max_depth == 4
\* config.MAX_REASONING_ITERATIONS, ReActEngine.max_iterations
MAX_REASONING_ITERATIONS == 5
\* TreeOfThoughtsEngine.max_thoughts_per_level
max_thoughts_per_level == 3

VARIABLES
    state,                  \* context.state
    last_updated,           \* context.last_updated
    transition_history,     \* state_machine.transition_history
    clock,                  \* datetime.now(), a logical clock
    sm_call,                \* the last call of state_machine.transition: from, to, outcome
    has_llm,                \* planner.llm is not None
    pc,                     \* position of the agent inside research()
    strategy,               \* the strategy argument of the running research()
    plan,                   \* context.plan (and the local plan of the workflow)
    current_step,           \* context.current_step
    results,                \* context.results
    execution_results,      \* local execution_results of the workflow
    completed_step_numbers, \* local completed_step_numbers of the workflow
    outcome,                \* how the last research() call ended
    exec_step,              \* executor harness: the step given to execute_step
    exec_oracle,            \* executor harness: what the engines do on each attempt
    exec_out,               \* executor harness: what execute_step returned
    ste_in,                 \* should_terminate_early harness: results and threshold
    ste_out,                \* should_terminate_early harness: the value returned
    tot,                    \* the locals of one TreeOfThoughtsEngine.solve_problem call, by size
    tree,                   \* the locals of one solve_problem call, node by node
    react,                  \* the locals of one ReActEngine.execute_step call
    rt_in,                  \* ReasoningManager harness: strategy hint and task
    rt_out,                 \* ReasoningManager harness: the engine that was run
    agents                  \* two ResearchAgent instances: their contexts and the last caller

smVars == <<state, last_updated, transition_history, clock>>
agentVars == <<has_llm, pc, strategy, plan, current_step, results,
               execution_results, completed_step_numbers, outcome>>
execVars == <<exec_step, exec_oracle, exec_out>>
engineVars == <<tree, react, rt_in, rt_out, agents>>
harnessVars == <<ste_in, ste_out, tot, engineVars>>
vars == <<state, last_updated, transition_history, clock, sm_call, has_llm, pc,
          strategy, plan, current_step, results, execution_results,
          completed_step_numbers, outcome, exec_step, exec_oracle, exec_out,
          ste_in, ste_out, tot, tree, react, rt_in, rt_out, agents>>
\* no tree search, no ReAct call and no routing call is under way, and there
\* is no second agent
EnginesIdle == tree = 0 /\ react = 0 /\ rt_in = 0 /\ rt_out = 0 /\ agents = 0

(***************************************************************************)
(* models.py: AgentState, ReasoningStrategy                                *)
(***************************************************************************)
AgentState ==
    {"IDLE", "PLANNING", "EXECUTING", "REPLANNING", "SYNTHESIZING", "DONE", "ERROR"}

ReasoningStrategy == {"REACT", "TREE_OF_THOUGHTS"}

(***************************************************************************)
(* state_machine.py                                                        *)
(***************************************************************************)
\* the table with ERROR also allowed from DONE
valid_transitions_DoneToError ==
    [s \in AgentState |->
        CASE s = "IDLE"         -> {"PLANNING", "ERROR"}
          [] s = "PLANNING"     -> {"EXECUTING", "ERROR", "IDLE"}
          [] s = "EXECUTING"    -> {"REPLANNING", "SYNTHESIZING", "ERROR", "IDLE"}
          [] s = "REPLANNING"   -> {"EXECUTING", "PLANNING", "ERROR", "IDLE"}
          [] s = "SYNTHESIZING" -> {"DONE", "ERROR", "EXECUTING"}
          [] s = "DONE"         -> {"IDLE", "PLANNING", "ERROR"}
          [] s = "ERROR"        -> {"IDLE", "PLANNING", "EXECUTING"}]

valid_transitions ==
    [s \in AgentState |->
        CASE s = "IDLE"         -> {"PLANNING", "ERROR"}
          [] s = "PLANNING"     -> {"EXECUTING", "ERROR", "IDLE"}
          [] s = "EXECUTING"    -> {"REPLANNING", "SYNTHESIZING", "ERROR", "IDLE"}
          [] s = "REPLANNING"   -> {"EXECUTING", "PLANNING", "ERROR", "IDLE"}
          [] s = "SYNTHESIZING" -> {"DONE", "ERROR", "EXECUTING"}
          [] s = "DONE"         -> {"IDLE", "PLANNING"}
          [] s = "ERROR"        -> {"IDLE", "PLANNING", "EXECUTING"}]

can_transition(from_state, to_state) ==
    to_state \in valid_transitions[from_state]

\* transition recording the target in the history before it checks the pair
transition_RecordFirst(m, new_state) ==
    LET logged == [m EXCEPT !.transition_history = Append(@, new_state)]
    IN IF new_state \notin valid_transitions[m.state]
       THEN [raised |-> TRUE, m |-> logged]
       ELSE [raised |-> FALSE,
             m |-> [logged EXCEPT !.state = new_state,
                                  !.last_updated = m.clock + 1,
                                  !.clock = m.clock + 1]]

\* transition that keeps only the newest entry of the history
transition_Overwrites(m, new_state) ==
    IF ~can_transition(m.state, new_state)
    THEN [raised |-> TRUE, m |-> m]
    ELSE [raised |-> FALSE,
          m |-> [state |-> new_state,
                 last_updated |-> m.clock + 1,
                 transition_history |-> <<new_state>>,
                 clock |-> m.clock + 1]]

\* The state machine and the context it acts on, as one record m:
\*   m.state, m.last_updated    - the context's fields
\*   m.transition_history       - the state machine's log
\*   m.clock                    - the clock
\* transition returns the record after the call and whether it raised ValueError.
transition(m, new_state) ==
    IF ~can_transition(m.state, new_state)
    THEN [raised |-> TRUE, m |-> m]
    ELSE [raised |-> FALSE,
          m |-> [state |-> new_state,
                 last_updated |-> m.clock + 1,
                 transition_history |-> Append(m.transition_history, new_state),
                 clock |-> m.clock + 1]]

\* ResearchAgentStateMachine.reset
reset(m) == [m EXCEPT !.transition_history = <<>>]

\* ResearchAgentStateMachine.validate_state_sequence
validate_state_sequence(states) ==
    IF states = <<>> THEN TRUE
    ELSE \A i \in 1..(Len(states) - 1) : can_transition(states[i], states[i + 1])

\* the current value of the record
M == [state |-> state, last_updated |-> last_updated,
      transition_history |-> transition_history, clock |-> clock]

SetM(m) ==
    /\ state' = m.state
    /\ last_updated' = m.last_updated
    /\ transition_history' = m.transition_history
    /\ clock' = m.clock

NoCall == [from |-> "IDLE", to |-> "IDLE", result |-> "none"]

Call(from, to, t) ==
    [from |-> from, to |-> to, result |-> IF t.raised THEN "ValueError" ELSE "True"]

(***************************************************************************)
(* models.py: ResearchStep, ResearchPlan                                   *)
(***************************************************************************)
\* A ResearchStep.  dependencies is the set of the numbers in the list; result is
\* "none" (None) or the success flag of the ToolResult stored in the step.
ResearchStep(n, task, rs, deps) ==
    [step_number |-> n, task |-> task, reasoning_strategy |-> rs,
     dependencies |-> deps, completed |-> FALSE, result |-> "none"]

step_numbers(steps) == [i \in 1..Len(steps) |-> steps[i].step_number]

\* the validator with the uniqueness check alone
validate_step_numbers_UniqueOnly(steps) ==
    IF Cardinality({steps[i].step_number : i \in 1..Len(steps)}) # Len(steps)
    THEN "Step numbers must be unique"
    ELSE ""

\* ResearchPlan.validate_step_numbers: the message of the ValueError raised,
\* "" when the steps pass
validate_step_numbers(steps) ==
    LET nums == step_numbers(steps)
    IN IF Cardinality({nums[i] : i \in 1..Len(nums)}) # Len(nums)
       THEN "Step numbers must be unique"
       ELSE IF nums # [i \in 1..Len(nums) |-> i]
            THEN "Step numbers must be sequential starting from 1"
            ELSE ""

NoPlan == [steps |-> <<>>, strategy |-> "none"]

\* ResearchPlan(query=..., steps=steps, strategy=tag): the plan, or the
\* ValidationError raised (min_items=1 on steps, then the validator)
ResearchPlan(steps, tag) ==
    IF Len(steps) < 1
    THEN [raised |-> TRUE, error |-> "min_items", plan |-> NoPlan]
    ELSE IF validate_step_numbers(steps) # ""
         THEN [raised |-> TRUE, error |-> validate_step_numbers(steps), plan |-> NoPlan]
         ELSE [raised |-> FALSE, error |-> "",
               plan |-> [steps |-> steps, strategy |-> tag]]

(***************************************************************************)
(* planner.py: ResearchPlanner                                             *)
(***************************************************************************)
\* What the planning LLM does on one invocation:
\*   "raise"      - llm.invoke raises, or a step of the response is refused by
\*                  ResearchStep (the error is not a JSONDecodeError or KeyError)
\*   "unparsable" - the response holds no JSON object, or json.loads fails
\*   "json"       - a JSON object with a list of steps; step_number 0 stands for
\*                  an absent "step_number" key (ResearchStep refuses a number
\*                  below 1, which is kind "raise"); dependencies is a list of
\*                  integers that ResearchStep does not constrain, so it may
\*                  hold 0
LLMStepData ==
    [step_number : 0..MaxLLMNum,
     dependencies : {d \in SUBSET (0..MaxLLMNum) : Cardinality(d) <= MaxLLMDeps},
     reasoning_strategy : ReasoningStrategy]

LLMResponses ==
    {[kind |-> "raise", steps |-> <<>>], [kind |-> "unparsable", steps |-> <<>>]}
    \cup {[kind |-> "json", steps |-> sd] :
             sd \in UNION {[1..n -> LLMStepData] : n \in 0..MaxLLMSteps}}

\* the response argument of a planner without an LLM
NoLLM == [kind |-> "none", steps |-> <<>>]

_generate_template_steps ==
    << ResearchStep(1, "search", "REACT", {}),
       ResearchStep(2, "analyze", "REACT", {1}),
       ResearchStep(3, "deepen", "REACT", {2}),
       ResearchStep(4, "synthesize", "TREE_OF_THOUGHTS", {1, 2, 3}) >>

\* _parse_plan_response: the list of steps built so far decides the default number
RECURSIVE parse_steps(_, _)
parse_steps(sd, steps) ==
    IF Len(steps) = Len(sd) THEN steps
    ELSE LET d == sd[Len(steps) + 1]
             n == IF d.step_number = 0 THEN Len(steps) + 1 ELSE d.step_number
         IN parse_steps(sd, Append(steps,
                ResearchStep(n, "llm", d.reasoning_strategy, d.dependencies)))

_parse_plan_response(r) ==
    IF r.kind = "json" THEN parse_steps(r.steps, <<>>) ELSE <<>>

_generate_steps_with_llm(r) ==
    IF r.kind = "raise" THEN _generate_template_steps
    ELSE _parse_plan_response(r)

Take(steps, n) == IF Len(steps) <= n THEN steps ELSE SubSeq(steps, 1, n)

_decomposition_first_plan(llm, r) ==
    LET steps == IF llm THEN _generate_steps_with_llm(r) ELSE _generate_template_steps
    IN ResearchPlan(Take(steps, MAX_PLAN_STEPS), "decomposition_first")

_interleaved_plan ==
    ResearchPlan(<< ResearchStep(1, "search", "REACT", {}),
                    ResearchStep(2, "analyze", "TREE_OF_THOUGHTS", {1}) >>,
                 "interleaved")

generate_plan(strat, llm, r) ==
    IF strat = "decomposition_first" THEN _decomposition_first_plan(llm, r)
    ELSE IF strat = "interleaved" THEN _interleaved_plan
    ELSE _decomposition_first_plan(llm, r)

\* should_replan(step, observation, context): observation is given by its length
\* and by whether it holds one of the trigger phrases
should_replan(obs) == obs.trigger \/ obs.len < 50

\* replan_from_step that keeps every step below the current one, completed or not
replan_from_step_KeepsIncomplete(original_plan, current_step_number, llm, r) ==
    LET completed_steps ==
            SelectSeq(original_plan.steps,
                      LAMBDA st : st.step_number < current_step_number)
        new_steps == IF llm THEN _generate_steps_with_llm(r)
                     ELSE _generate_template_steps
        renumbered ==
            [i \in 1..Len(new_steps) |->
                [new_steps[i] EXCEPT
                    !.step_number = current_step_number + (i - 1),
                    !.dependencies = {dep \in @ : dep < current_step_number}]]
    IN ResearchPlan(completed_steps \o renumbered, "replanned")

replan_from_step(original_plan, current_step_number, llm, r) ==
    LET completed_steps ==
            SelectSeq(original_plan.steps,
                      LAMBDA st : st.step_number < current_step_number /\ st.completed)
        new_steps == IF llm THEN _generate_steps_with_llm(r)
                     ELSE _generate_template_steps
        renumbered ==
            [i \in 1..Len(new_steps) |->
                [new_steps[i] EXCEPT
                    !.step_number = current_step_number + (i - 1),
                    !.dependencies = {dep \in @ : dep < current_step_number}]]
    IN ResearchPlan(completed_steps \o renumbered, "replanned")

\* the scheduler without the dependency check: the first incomplete step
get_next_executable_step_NoDeps(p) ==
    IF \A i \in 1..Len(p.steps) : p.steps[i].completed THEN 0
    ELSE CHOOSE i \in 1..Len(p.steps) :
            /\ ~p.steps[i].completed
            /\ \A j \in 1..(i - 1) : p.steps[j].completed

\* get_next_executable_step: the position in plan.steps of the step returned,
\* 0 for None
completed_numbers(p) ==
    {p.steps[i].step_number : i \in {j \in 1..Len(p.steps) : p.steps[j].completed}}

RECURSIVE first_executable(_, _)
first_executable(p, i) ==
    IF i > Len(p.steps) THEN 0
    ELSE IF /\ ~p.steps[i].completed
            /\ \A dep \in p.steps[i].dependencies : dep \in completed_numbers(p)
         THEN i
         ELSE first_executable(p, i + 1)

\* the scheduler without the completed check: the first step whose dependencies
\* are all completed, complete or not
get_next_executable_step_IgnoresCompleted(p) ==
    LET ready == {i \in 1..Len(p.steps) :
                     \A dep \in p.steps[i].dependencies : dep \in completed_numbers(p)}
    IN IF ready = {} THEN 0
       ELSE CHOOSE i \in ready : \A j \in ready : i <= j

get_next_executable_step(p) == first_executable(p, 1)

(***************************************************************************)
(* reasoning/__init__.py and executor.py: PlanExecutor                     *)
(***************************************************************************)
\* What the reasoning engine invoked on one attempt does; elapsed is the time
\* the attempt takes.
\*   "returns"   - the engine's LLM answers (or the engine has no LLM and uses
\*                 its mock responses) and the engine returns its dictionary
\*   "llm_fails" - every llm.invoke of the engine raises; the engine handles
\*                 the error as its code does and returns its dictionary
\*   "raises"    - an unexpected error leaves the engine
EngineBehaviour ==
    [does : {"returns", "llm_fails", "raises"}, elapsed : 0..MaxElapsed]

Oracles == [0..(max_retries - 1) -> EngineBehaviour]

\* ReActEngine.execute_step: the final answer the loop ends with, "none" for
\* None.  With the LLM failing, _generate_thought returns its fallback thought
\* and _generate_action returns {"is_final_answer": True, "answer": "Unable to
\* complete task due to error: ..."}, which becomes the final answer; otherwise
\* the answer is the one the LLM gives or the one _generate_final_answer writes.
ReAct_final_answer(b) ==
    IF b.does = "llm_fails" THEN "Unable to complete task due to error"
    ELSE "answer"

\* ReasoningManager.execute_reasoning: the dictionary the selected engine returns.
\* ReActEngine.execute_step sets "success" (final_answer is not None) and
\* "final_answer"; TreeOfThoughtsEngine.solve_problem sets "solution" and no
\* "success" key (with the LLM failing _generate_thoughts returns []).
\* engine is the engine the call is dispatched to; has_success says whether the
\* dictionary returned has the key "success", success is its value.
execute_reasoning(strat, b) ==
    LET engine == IF strat = "tree_of_thoughts" THEN "TREE_OF_THOUGHTS" ELSE "REACT"
    IN [engine |-> engine,
        raised |-> (b.does = "raises"),
        has_success |-> (b.does # "raises" /\ engine = "REACT"),
        success |-> (b.does # "raises" /\ engine = "REACT"
                        /\ ReAct_final_answer(b) # "none")]

\* ReasoningStrategy.value.lower()
lower(rs) == IF rs = "REACT" THEN "react" ELSE "tree_of_thoughts"

\* strategy selection that repeats the nominal strategy on every attempt
_select_reasoning_strategy_NoSwitch(step, attempt) ==
    IF step.reasoning_strategy = "REACT" THEN "react" ELSE "tree_of_thoughts"

_select_reasoning_strategy(step, attempt) ==
    LET base_strategy == lower(step.reasoning_strategy)
    IN IF attempt > 0
       THEN IF base_strategy = "react" THEN "tree_of_thoughts" ELSE "react"
       ELSE base_strategy

\* a ToolResult: result is "" on every failure
ToolResult(name, ok, t) ==
    [tool_name |-> name, success |-> ok, execution_time |-> t]

\* reasoning_result.get("success", False)
_process_reasoning_result(step, rr) ==
    LET success == IF rr.has_success THEN rr.success ELSE FALSE
    IN ToolResult("reasoning_engine", success, 0)

_execute_step_with_strategy(step, b, attempt) ==
    LET strat == _select_reasoning_strategy(step, attempt)
        rr == execute_reasoning(strat, b)
    IN IF rr.raised
       THEN ToolResult("reasoning_engine", FALSE, b.elapsed)
       ELSE [_process_reasoning_result(step, rr) EXCEPT !.execution_time = b.elapsed]

\* execute_step: the retry loop from attempt on.  attempts is the log of the
\* attempts made: the engine the attempt was run with and the verdict.  raised
\* says whether an exception left execute_step: _execute_step_with_strategy
\* catches every Exception of the attempt itself, so the loop's own except
\* clause has nothing left to catch and raised stays FALSE.
RECURSIVE retry_loop(_, _, _, _)
retry_loop(step, oracle, attempt, log) ==
    LET res == _execute_step_with_strategy(step, oracle[attempt], attempt)
        strat == _select_reasoning_strategy(step, attempt)
        log2 == Append(log, [engine |-> execute_reasoning(strat, oracle[attempt]).engine,
                             success |-> res.success])
    IN IF res.success THEN [raised |-> FALSE, result |-> res, attempts |-> log2]
       ELSE IF attempt < max_retries - 1
            THEN retry_loop(step, oracle, attempt + 1, log2)
            ELSE [raised |-> FALSE, result |-> res, attempts |-> log2]

\* execute_step that runs all its attempts and returns the last result
execute_step_AllAttempts(step, oracle) ==
    LET run(a) == _execute_step_with_strategy(step, oracle[a], a)
        entry(a) == [engine |-> execute_reasoning(_select_reasoning_strategy(step, a),
                                                  oracle[a]).engine,
                     success |-> run(a).success]
    IN [raised |-> FALSE, result |-> run(max_retries - 1),
        attempts |-> [i \in 1..max_retries |-> entry(i - 1)]]

\* execute_step that lets an error of the first attempt through to its caller
execute_step_Propagates(step, oracle) ==
    IF oracle[0].does = "raises"
    THEN [raised |-> TRUE, result |-> ToolResult("none", FALSE, 0),
          attempts |-> <<[engine |-> execute_reasoning(
                                         _select_reasoning_strategy(step, 0),
                                         oracle[0]).engine,
                          success |-> FALSE]>>]
    ELSE retry_loop(step, oracle, 0, <<>>)

execute_step(step, oracle) == retry_loop(step, oracle, 0, <<>>)

validate_step_dependencies(step, completed_steps) ==
    \A dep \in step.dependencies :
        \E i \in 1..Len(completed_steps) : completed_steps[i] = dep

\* the default failure_threshold 0.5, as a fraction
failure_threshold == [num |-> 1, den |-> 2]

\* should_terminate_early that fires when the failure rate reaches the threshold
should_terminate_early_AtThreshold(res, threshold) ==
    IF Len(res) < 2 THEN FALSE
    ELSE LET failed_count == Cardinality({i \in 1..Len(res) : ~res[i].success})
         IN failed_count * threshold.den >= threshold.num * Len(res)

\* should_terminate_early(results, failure_threshold), the threshold a fraction
\* num/den: failed_count / len(results) > failure_threshold, in integers
should_terminate_early(res, threshold) ==
    IF Len(res) < 2 THEN FALSE
    ELSE LET failed_count == Cardinality({i \in 1..Len(res) : ~res[i].success})
         IN failed_count * threshold.den > threshold.num * Len(res)

(***************************************************************************)
(* The state machine driven directly by a caller (SpecSM): a context in    *)
(* any state, transition called with any target, reset.                    *)
(***************************************************************************)
\* how a call of research() ended: kind is "none" (no call yet), "running",
\* "report", "error_report" (error is the text of the exception caught) or
\* "raised" (an exception left research())
NoOutcome == [kind |-> "none", error |-> ""]

InitOther ==
    /\ has_llm = FALSE
    /\ pc = "idle"
    /\ strategy = "decomposition_first"
    /\ plan = [steps |-> <<>>, strategy |-> "none"]
    /\ current_step = 0
    /\ results = <<>>
    /\ execution_results = <<>>
    /\ completed_step_numbers = <<>>
    /\ outcome = NoOutcome

InitSM ==
    /\ state \in AgentState
    /\ last_updated = 0
    /\ transition_history = <<>>
    /\ clock = 0
    /\ sm_call = NoCall
    /\ InitOther
    /\ exec_step = 0 /\ exec_oracle = 0 /\ exec_out = 0
    /\ ste_in = 0 /\ ste_out = 0 /\ tot = 0
    /\ EnginesIdle

\* state_machine.transition(context, t)
SMTransition(t) ==
    /\ clock < MaxClock
    /\ LET r == transition(M, t)
       IN /\ SetM(r.m)
          /\ sm_call' = Call(state, t, r)
    /\ UNCHANGED <<agentVars, execVars, harnessVars>>

\* state_machine.reset()
SMReset ==
    /\ transition_history # <<>>
    /\ SetM(reset(M))
    /\ UNCHANGED <<sm_call, agentVars, execVars, harnessVars>>

NextSM ==
    \/ \E t \in AgentState : SMTransition(t)
    \/ SMReset

SpecSM == InitSM /\ [][NextSM]_vars

(***************************************************************************)
(* The executor on its own (SpecExec): execute_step applied to a step of   *)
(* either nominal strategy, under every behaviour of the engines.          *)
(***************************************************************************)
NoOut == [raised |-> FALSE, result |-> ToolResult("none", FALSE, 0), attempts |-> <<>>]

InitExec ==
    /\ state = "EXECUTING"
    /\ last_updated = 0
    /\ transition_history = <<>>
    /\ clock = 0
    /\ sm_call = NoCall
    /\ InitOther
    /\ exec_step \in {ResearchStep(1, "llm", rs, {}) : rs \in ReasoningStrategy}
    /\ exec_oracle \in Oracles
    /\ exec_out = NoOut
    /\ ste_in = 0 /\ ste_out = 0 /\ tot = 0
    /\ EnginesIdle

ExecuteStep ==
    /\ exec_out = NoOut
    /\ exec_out' = execute_step(exec_step, exec_oracle)
    /\ UNCHANGED <<smVars, sm_call, agentVars, exec_step, exec_oracle, harnessVars>>

NextExec == ExecuteStep

SpecExec == InitExec /\ [][NextExec]_vars

(***************************************************************************)
(* should_terminate_early on its own (SpecSTE): applied to every list of   *)
(* up to MaxResults results and every threshold k / ThresholdDen.          *)
(***************************************************************************)
NoSte == [called |-> FALSE, value |-> FALSE]

ResultLists ==
    UNION {[1..n -> {ToolResult("reasoning_engine", ok, 0) : ok \in BOOLEAN}] :
              n \in 0..MaxResults}

Thresholds ==
    {failure_threshold} \cup {[num |-> k, den |-> ThresholdDen] : k \in 0..ThresholdDen}

InitSTE ==
    /\ state = "EXECUTING"
    /\ last_updated = 0
    /\ transition_history = <<>>
    /\ clock = 0
    /\ sm_call = NoCall
    /\ InitOther
    /\ exec_step = 0 /\ exec_oracle = 0 /\ exec_out = 0
    /\ ste_in \in [results : ResultLists, threshold : Thresholds]
    /\ ste_out = NoSte
    /\ tot = 0
    /\ EnginesIdle

ShouldTerminateEarly ==
    /\ ~ste_out.called
    /\ ste_out' = [called |-> TRUE,
                   value |-> should_terminate_early(ste_in.results, ste_in.threshold)]
    /\ UNCHANGED <<smVars, sm_call, agentVars, execVars, ste_in, tot, engineVars>>

NextSTE == ShouldTerminateEarly

SpecSTE == InitSTE /\ [][NextSTE]_vars

(***************************************************************************)
(* tree_of_thoughts.py: one call of TreeOfThoughtsEngine.solve_problem     *)
(* (SpecToT), followed parent by parent.  tot holds the locals of the call *)
(* by their sizes:                                                         *)
(*   depth               - the loop variable                               *)
(*   current_level       - len(current_level)                              *)
(*   pending             - parents of current_level not yet expanded       *)
(*   next_level          - len(next_level)                                 *)
(*   thought_tree        - len(thought_tree)                               *)
(*   solution_candidates - len(solution_candidates)                        *)
(***************************************************************************)
InitToT ==
    /\ state = "EXECUTING"
    /\ last_updated = 0
    /\ transition_history = <<>>
    /\ clock = 0
    /\ sm_call = NoCall
    /\ InitOther
    /\ exec_step = 0 /\ exec_oracle = 0 /\ exec_out = 0
    /\ ste_in = 0 /\ ste_out = 0
    /\ EnginesIdle
    /\ tot = [phase |-> "expanding", depth |-> 1, current_level |-> 1, pending |-> 1,
              next_level |-> 0, thought_tree |-> 1, solution_candidates |-> 0]

\* _select_best_thoughts: the size of the list it returns
_select_best_thoughts(n) ==
    IF n <= max_thoughts_per_level THEN n ELSE max_thoughts_per_level

\* the body of "for parent_id in current_level": _generate_thoughts returns n
\* thoughts, every one of them is added to the tree; good of them have a quality
\* of at least quality_threshold, cand of them are solution candidates
GenerateThoughts(n, good, cand) ==
    /\ tot.phase = "expanding"
    /\ tot.pending > 0
    /\ tot' = [tot EXCEPT
                 !.pending = @ - 1,
                 !.thought_tree = @ + n,
                 !.solution_candidates = @ + cand,
                 !.next_level = @ + (IF tot.depth < max_depth THEN good ELSE 0)]
    /\ UNCHANGED <<smVars, sm_call, agentVars, execVars, ste_in, ste_out, engineVars>>

\* EndLevel without the early break on two solution candidates
EndLevel_NoEarlyBreak ==
    /\ tot.phase = "expanding"
    /\ tot.pending = 0
    /\ LET kept == _select_best_thoughts(tot.next_level)
       IN tot' = IF tot.depth = max_depth
                 THEN [tot EXCEPT !.phase = "returned", !.current_level = kept,
                                  !.next_level = kept]
                 ELSE [tot EXCEPT !.depth = @ + 1, !.current_level = kept,
                                  !.pending = kept, !.next_level = 0]
    /\ UNCHANGED <<smVars, sm_call, agentVars, execVars, ste_in, ste_out, engineVars>>

\* the end of one iteration of "for depth in range(1, max_depth + 1)": pruning
\* of next_level, the early break, the next depth or the return
EndLevel ==
    /\ tot.phase = "expanding"
    /\ tot.pending = 0
    /\ LET kept == _select_best_thoughts(tot.next_level)
       IN tot' = IF tot.solution_candidates >= 2 \/ tot.depth = max_depth
                 THEN [tot EXCEPT !.phase = "returned", !.current_level = kept,
                                  !.next_level = kept]
                 ELSE [tot EXCEPT !.depth = @ + 1, !.current_level = kept,
                                  !.pending = kept, !.next_level = 0]
    /\ UNCHANGED <<smVars, sm_call, agentVars, execVars, ste_in, ste_out, engineVars>>

NextToT ==
    \/ \E n \in 0..MaxThoughts : \E good \in 0..n : \E cand \in 0..n :
          GenerateThoughts(n, good, cand)
    \/ EndLevel

SpecToT == InitToT /\ [][NextToT]_vars

(***************************************************************************)
(* tree_of_thoughts.py: TreeOfThoughtsEngine.solve_problem, node by node   *)
(* (SpecTree).  tree holds the locals of one call:                         *)
(*   thought_tree        - the nodes in insertion order; the node with id  *)
(*                         n is at position n + 1, id 0 is "root" and id n *)
(*                         is "thought_n"                                  *)
(*   current_level, next_level, solution_candidates - lists of ids         *)
(*   parent              - position in current_level of the next parent    *)
(*   best_solution       - what _select_best_solution returned             *)
(* quality scores are counted in tenths.                                   *)
(***************************************************************************)
\* parent_id = None
None == 0 - 1
\* self.quality_threshold = 0.6
quality_threshold == 6
\* the scores _evaluate_thought gives: below, at and above the threshold
QualityScores == {5, 6, 7}

ThoughtNode(id, parent_id, depth, quality_score, node_state, is_candidate) ==
    [id |-> id, parent_id |-> parent_id, depth |-> depth,
     quality_score |-> quality_score, state |-> node_state, children |-> <<>>,
     is_candidate |-> is_candidate]

\* what _generate_thoughts, _evaluate_thought and _is_solution_candidate find
\* for one new thought: its score and whether its content names a solution
ChildThoughts == [quality_score : QualityScores, is_candidate : BOOLEAN]
ChildLists == UNION {[1..n -> ChildThoughts] : n \in 0..MaxChildren}

\* (a, b) comes before (c, d) in a list of tuples sorted with reverse = True
TupleBefore(qa, ida, qb, idb) == qa > qb \/ (qa = qb /\ ida > idb)

RECURSIVE sort_reverse(_, _)
sort_reverse(ids, T) ==
    IF ids = {} THEN <<>>
    ELSE LET first == CHOOSE a \in ids : \A b \in ids \ {a} :
                          TupleBefore(T[a + 1].quality_score, a,
                                      T[b + 1].quality_score, b)
         IN <<first>> \o sort_reverse(ids \ {first}, T)

Range(f) == {f[i] : i \in DOMAIN f}

\* _select_best_thoughts that keeps the first thoughts in generation order
_select_best_thoughts_ids_FirstCome(thought_ids, T) ==
    Take(thought_ids, max_thoughts_per_level)

\* _select_best_thoughts(thought_ids, thought_tree): the list it returns
_select_best_thoughts_ids(thought_ids, T) ==
    Take(sort_reverse(Range(thought_ids), T), max_thoughts_per_level)

RECURSIVE _get_reasoning_path_NotReversed(_, _)
\* _get_reasoning_path without the final reversal: from the thought to the root
_get_reasoning_path_NotReversed(thought_id, T) ==
    IF thought_id = None \/ thought_id + 1 \notin DOMAIN T THEN <<>>
    ELSE <<thought_id>> \o _get_reasoning_path_NotReversed(T[thought_id + 1].parent_id, T)

RECURSIVE _get_reasoning_path(_, _)
_get_reasoning_path(thought_id, T) ==
    IF thought_id = None \/ thought_id + 1 \notin DOMAIN T THEN <<>>
    ELSE Append(_get_reasoning_path(T[thought_id + 1].parent_id, T), thought_id)

\* max(list, key = quality_score): the first of the list with the highest score
max_by_quality(ids, T) ==
    LET i == CHOOSE i \in DOMAIN ids :
                 /\ \A j \in DOMAIN ids :
                        T[ids[j] + 1].quality_score <= T[ids[i] + 1].quality_score
                 /\ \A j \in 1..(i - 1) :
                        T[ids[j] + 1].quality_score < T[ids[i] + 1].quality_score
    IN ids[i]

\* _select_best_solution that returns the last candidate, whatever its score
_select_best_solution_LastCandidate(solution_candidates, T) ==
    LET leaf_nodes == SelectSeq([i \in DOMAIN T |-> i - 1],
                          LAMBDA id : T[id + 1].children = <<>> /\ T[id + 1].depth > 0)
        found(id, type) == [type |-> type, thought |-> id,
                            quality_score |-> T[id + 1].quality_score,
                            reasoning_path |-> _get_reasoning_path(id, T)]
    IN IF solution_candidates = <<>>
       THEN IF leaf_nodes # <<>>
            THEN found(max_by_quality(leaf_nodes, T), "leaf_node")
            ELSE [type |-> "no_solution", thought |-> None, quality_score |-> 0,
                  reasoning_path |-> <<>>]
       ELSE found(solution_candidates[Len(solution_candidates)], "solution_candidate")

_select_best_solution(solution_candidates, T) ==
    LET leaf_nodes == SelectSeq([i \in DOMAIN T |-> i - 1],
                          LAMBDA id : T[id + 1].children = <<>> /\ T[id + 1].depth > 0)
        found(id, type) == [type |-> type, thought |-> id,
                            quality_score |-> T[id + 1].quality_score,
                            reasoning_path |-> _get_reasoning_path(id, T)]
    IN IF solution_candidates = <<>>
       THEN IF leaf_nodes # <<>>
            THEN found(max_by_quality(leaf_nodes, T), "leaf_node")
            ELSE [type |-> "no_solution", thought |-> None, quality_score |-> 0,
                  reasoning_path |-> <<>>]
       ELSE found(max_by_quality(solution_candidates, T), "solution_candidate")

NoSolution == [type |-> "none", thought |-> None, quality_score |-> 0,
               reasoning_path |-> <<>>]

InitTree ==
    /\ state = "EXECUTING"
    /\ last_updated = 0
    /\ transition_history = <<>>
    /\ clock = 0
    /\ sm_call = NoCall
    /\ InitOther
    /\ exec_step = 0 /\ exec_oracle = 0 /\ exec_out = 0
    /\ ste_in = 0 /\ ste_out = 0 /\ tot = 0
    /\ react = 0 /\ rt_in = 0 /\ rt_out = 0 /\ agents = 0
    /\ tree = [phase |-> "expanding", depth |-> 1,
               thought_tree |-> <<ThoughtNode(0, None, 0, 10, "expanded", FALSE)>>,
               current_level |-> <<0>>, parent |-> 1, next_level |-> <<>>,
               solution_candidates |-> <<>>, best_solution |-> NoSolution]

\* the id of the next child: f"thought_{len(thought_tree)}"
child_id_Reused(t) == Len(t.thought_tree) - 1

child_id(t) == Len(t.thought_tree)

\* the body of "for child_thought in child_thoughts" for one child
add_child(t, parent_id, c) ==
    LET id == child_id(t)
        child == ThoughtNode(id, parent_id, t.depth, c.quality_score, "pending",
                             c.is_candidate)
        T == IF id + 1 \in DOMAIN t.thought_tree
             THEN [t.thought_tree EXCEPT ![id + 1] = child]
             ELSE Append(t.thought_tree, child)
    IN [t EXCEPT
          !.thought_tree = [T EXCEPT ![parent_id + 1].children = Append(@, id)],
          !.solution_candidates = IF c.is_candidate THEN Append(@, id) ELSE @,
          !.next_level = IF c.quality_score >= quality_threshold /\ t.depth < max_depth
                         THEN Append(@, id) ELSE @]

RECURSIVE add_children(_, _, _)
add_children(t, parent_id, cs) ==
    IF cs = <<>> THEN t
    ELSE add_children(add_child(t, parent_id, Head(cs)), parent_id, Tail(cs))

\* the body of "for parent_id in current_level" for the next parent
ExpandParent(children) ==
    /\ tree.phase = "expanding"
    /\ tree.parent <= Len(tree.current_level)
    /\ Len(tree.thought_tree) + Len(children) <= MaxNodes
    /\ tree' = [add_children(tree, tree.current_level[tree.parent], children)
                  EXCEPT !.parent = @ + 1]
    /\ UNCHANGED <<smVars, sm_call, agentVars, execVars, ste_in, ste_out, tot,
                   react, rt_in, rt_out, agents>>

\* the end of one iteration of the depth loop, and after the last one the
\* selection of the best solution
FinishDepth ==
    /\ tree.phase = "expanding"
    /\ tree.parent > Len(tree.current_level)
    /\ LET kept == IF Len(tree.next_level) > max_thoughts_per_level
                   THEN _select_best_thoughts_ids(tree.next_level, tree.thought_tree)
                   ELSE tree.next_level
       IN tree' = IF Len(tree.solution_candidates) >= 2 \/ tree.depth = max_depth
                  THEN [tree EXCEPT
                          !.phase = "returned", !.current_level = kept,
                          !.best_solution = _select_best_solution(
                                tree.solution_candidates, tree.thought_tree)]
                  ELSE [tree EXCEPT !.depth = @ + 1, !.current_level = kept,
                                    !.parent = 1, !.next_level = <<>>]
    /\ UNCHANGED <<smVars, sm_call, agentVars, execVars, ste_in, ste_out, tot,
                   react, rt_in, rt_out, agents>>

NextTree ==
    \/ \E children \in ChildLists : ExpandParent(children)
    \/ FinishDepth

SpecTree == InitTree /\ [][NextTree]_vars

(***************************************************************************)
(* react.py: ReActEngine.execute_step (SpecReAct).  react holds the locals *)
(* of one call: iteration, reasoning_history (action and observation or    *)
(* result text of each entry), context (the observation lines appended to  *)
(* it), observation (the value of the last iteration's observation),       *)
(* final_answer ("None", the empty string, or "answer" for any other text) *)
(* and the position of the call: "loop" at the while condition,            *)
(* "after_loop" behind the loop, "returned" with the result built.         *)
(***************************************************************************)
\* what _generate_action gives in one iteration, and what becomes of the tool
\* call: a final answer with its text; a tool call that succeeds ("ok"), names
\* a tool the registry does not have ("not_found"), whose tool raises
\* ("raises") or whose call into the registry raises ("call_raises"); or no
\* tool name at all
ReActTurns ==
    [action : {"final_answer"}, answer : {"", "answer"}, tool : {"ok"}]
      \cup [action : {"tool"}, answer : {""},
            tool : {"ok", "not_found", "raises", "call_raises"}]
      \cup [action : {"no_tool"}, answer : {""}, tool : {"ok"}]

\* tool_registry.execute_tool, and the except clause of _execute_tool around it:
\* the ToolResult of the call
_execute_tool(tool) ==
    IF tool = "ok"
    THEN [is_tool_result |-> TRUE, success |-> TRUE, result |-> "tool result",
          error_message |-> "None"]
    ELSE [is_tool_result |-> TRUE, success |-> FALSE, result |-> "",
          error_message |-> IF tool = "not_found" THEN "Tool not found"
                            ELSE IF tool = "raises" THEN "Error executing tool"
                            ELSE "str(e)"]

\* the plain string the loop takes as observation when no tool is named
NoValidAction ==
    [is_tool_result |-> FALSE, success |-> FALSE,
     result |-> "No valid action specified.", error_message |-> "None"]

\* observation.result if isinstance(observation, ToolResult) else str(observation)
observation_text(observation) == observation.result

\* the texts _generate_final_answer can return: response.content.strip()
FinalAnswerTexts == {"", "answer"}

\* Python's "not final_answer"
not_final_answer(r) == r.final_answer \in {"None", ""}

InitReAct ==
    /\ state = "EXECUTING"
    /\ last_updated = 0
    /\ transition_history = <<>>
    /\ clock = 0
    /\ sm_call = NoCall
    /\ InitOther
    /\ exec_step = 0 /\ exec_oracle = 0 /\ exec_out = 0
    /\ ste_in = 0 /\ ste_out = 0 /\ tot = 0
    /\ tree = 0 /\ rt_in = 0 /\ rt_out = 0 /\ agents = 0
    /\ react = [phase |-> "loop", iteration |-> 0, reasoning_history |-> <<>>,
                context |-> <<>>, observation |-> NoValidAction,
                final_answer |-> "None", success |-> FALSE]

\* one iteration of "while iteration < max_iterations and not final_answer"
ReActIterate(turn) ==
    /\ react.phase = "loop"
    /\ react.iteration < MAX_REASONING_ITERATIONS
    /\ not_final_answer(react)
    /\ react' =
         IF turn.action = "final_answer"
         THEN [react EXCEPT
                 !.iteration = @ + 1,
                 !.final_answer = turn.answer,
                 !.reasoning_history =
                     Append(@, [action |-> "Final Answer", text |-> turn.answer]),
                 !.phase = "after_loop"]
         ELSE LET observation == IF turn.action = "tool" THEN _execute_tool(turn.tool)
                                 ELSE NoValidAction
              IN [react EXCEPT
                    !.iteration = @ + 1,
                    !.observation = observation,
                    !.reasoning_history =
                        Append(@, [action |-> IF turn.action = "tool" THEN "Used tool"
                                              ELSE "Used None",
                                   text |-> observation_text(observation)]),
                    !.context = Append(@, observation_text(observation))]
    /\ UNCHANGED <<smVars, sm_call, agentVars, execVars, ste_in, ste_out, tot,
                   tree, rt_in, rt_out, agents>>

\* the end of the loop, "if not final_answer: final_answer =
\* _generate_final_answer(...)" and the result
ReActReturn(text) ==
    /\ \/ react.phase = "after_loop"
       \/ /\ react.phase = "loop"
          /\ ~(react.iteration < MAX_REASONING_ITERATIONS /\ not_final_answer(react))
    /\ LET final_answer == IF not_final_answer(react) THEN text
                           ELSE react.final_answer
       IN react' = [react EXCEPT !.phase = "returned",
                                 !.final_answer = final_answer,
                                 !.success = (final_answer # "None")]
    /\ UNCHANGED <<smVars, sm_call, agentVars, execVars, ste_in, ste_out, tot,
                   tree, rt_in, rt_out, agents>>

NextReAct ==
    \/ \E turn \in ReActTurns : ReActIterate(turn)
    \/ \E text \in FinalAnswerTexts : ReActReturn(text)

SpecReAct == InitReAct /\ [][NextReAct]_vars

(***************************************************************************)
(* reasoning/__init__.py: ReasoningManager.execute_reasoning with its      *)
(* strategy argument and _select_strategy (SpecRouter).  A task is known   *)
(* by what _select_strategy reads of it: how many of the tot_indicators    *)
(* and of the react_indicators occur in it, whether the context is longer  *)
(* than 1000 characters and whether the task is longer than 20 words.      *)
(***************************************************************************)
Tasks == [tot_indicators : 0..MaxIndicators, react_indicators : 0..MaxIndicators,
          long_context : BOOLEAN, long_task : BOOLEAN]

\* the strategy argument: the three documented values and any other string
StrategyHints == {"auto", "react", "tree_of_thoughts", "other"}

tot_score(task) ==
    task.tot_indicators + (IF task.long_context THEN 1 ELSE 0)
                        + (IF task.long_task THEN 1 ELSE 0)

react_score(task) == task.react_indicators

\* _select_strategy that gives equal scores to tree_of_thoughts
_select_strategy_TiesToTree(task) ==
    IF tot_score(task) >= react_score(task) THEN "tree_of_thoughts" ELSE "react"

_select_strategy(task) ==
    IF tot_score(task) > react_score(task) THEN "tree_of_thoughts" ELSE "react"

\* execute_reasoning(task, context, strategy): the engine it runs
dispatch(strategy_hint, task) ==
    LET selected == IF strategy_hint = "auto" THEN _select_strategy(task)
                    ELSE strategy_hint
    IN IF selected = "tree_of_thoughts" THEN "TREE_OF_THOUGHTS" ELSE "REACT"

NoRoute == [called |-> FALSE, engine |-> "none"]

InitRouter ==
    /\ state = "EXECUTING"
    /\ last_updated = 0
    /\ transition_history = <<>>
    /\ clock = 0
    /\ sm_call = NoCall
    /\ InitOther
    /\ exec_step = 0 /\ exec_oracle = 0 /\ exec_out = 0
    /\ ste_in = 0 /\ ste_out = 0 /\ tot = 0
    /\ tree = 0 /\ react = 0 /\ agents = 0
    /\ rt_in \in [strategy : StrategyHints, task : Tasks]
    /\ rt_out = NoRoute

Route ==
    /\ ~rt_out.called
    /\ rt_out' = [called |-> TRUE, engine |-> dispatch(rt_in.strategy, rt_in.task)]
    /\ UNCHANGED <<smVars, sm_call, agentVars, execVars, ste_in, ste_out, tot,
                   tree, react, rt_in, agents>>

NextRouter == Route

SpecRouter == InitRouter /\ [][NextRouter]_vars

(***************************************************************************)
(* agent.py: ResearchAgent (Spec).  research() is followed through its     *)
(* blocking calls: pc is "idle" between calls, "planning" while the plan   *)
(* is generated, "loop" at the top of the execution loop, "replanning"     *)
(* while the planner replans, "synthesizing" while the report is written,  *)
(* "storing" while the report is stored.                                   *)
(***************************************************************************)
\* the engines' behaviours the workflow is run under (durations left at 0)
StepOracles == [0..(max_retries - 1) -> {b \in EngineBehaviour : b.elapsed = 0}]

Init ==
    /\ state = "IDLE"
    /\ last_updated = 0
    /\ transition_history = <<>>
    /\ clock = 0
    /\ sm_call = NoCall
    /\ has_llm \in BOOLEAN
    /\ pc = "idle"
    /\ strategy = "decomposition_first"
    /\ plan = NoPlan
    /\ current_step = 0
    /\ results = <<>>
    /\ execution_results = <<>>
    /\ completed_step_numbers = <<>>
    /\ outcome = NoOutcome
    /\ exec_step = 0 /\ exec_oracle = 0 /\ exec_out = 0
    /\ ste_in = 0 /\ ste_out = 0 /\ tot = 0
    /\ EnginesIdle

\* an except clause that puts the context back to IDLE and returns the error report
Handler_BackToIdle(err) ==
    LET e == transition(M, "IDLE")
    IN /\ SetM(e.m)
       /\ sm_call' = Call(state, "IDLE", e)
       /\ pc' = "idle"
       /\ outcome' = [kind |-> "error_report", error |-> err]
       /\ execution_results' = <<>>
       /\ completed_step_numbers' = <<>>

\* an except clause that writes ERROR into the context without the state machine
Handler_SetsError(err) ==
    /\ SetM([M EXCEPT !.state = "ERROR", !.last_updated = clock + 1,
                      !.clock = clock + 1])
    /\ sm_call' = sm_call
    /\ pc' = "idle"
    /\ outcome' = [kind |-> "error_report", error |-> err]
    /\ execution_results' = <<>>
    /\ completed_step_numbers' = <<>>

\* the except clause of research(): transition to ERROR, return the error report;
\* a ValueError of that transition leaves research()
Handler(err) ==
    LET e == transition(M, "ERROR")
    IN /\ SetM(e.m)
       /\ sm_call' = Call(state, "ERROR", e)
       /\ pc' = "idle"
       /\ outcome' = IF e.raised
                     THEN [kind |-> "raised", error |-> "Invalid transition"]
                     ELSE [kind |-> "error_report", error |-> err]
       /\ execution_results' = <<>>
       /\ completed_step_numbers' = <<>>

\* state_machine.transition(self.context, target, ...) inside the workflow, the
\* workflow going on at nextpc
Move(target, nextpc, er, cs) ==
    LET t == transition(M, target)
    IN IF t.raised
       THEN Handler("Invalid transition")
       ELSE /\ SetM(t.m)
            /\ sm_call' = Call(state, target, t)
            /\ pc' = nextpc
            /\ outcome' = [kind |-> "running", error |-> ""]
            /\ execution_results' = er
            /\ completed_step_numbers' = cs

\* research(query, strat) up to the call of generate_plan
Research(strat) ==
    /\ pc = "idle"
    /\ clock < MaxClock
    /\ strategy' = strat
    /\ Move("PLANNING", "planning", <<>>, <<>>)
    /\ UNCHANGED <<has_llm, plan, current_step, results, execVars, harnessVars>>

\* generate_plan returns or raises; then the transition to EXECUTING
GeneratePlan(r) ==
    /\ pc = "planning"
    /\ clock < MaxClock
    /\ LET g == generate_plan(strategy, has_llm, r)
       IN IF g.raised
          THEN Handler(g.error) /\ plan' = plan
          ELSE /\ plan' = g.plan
               /\ Move("EXECUTING", "loop", <<>>, <<>>)
    /\ UNCHANGED <<has_llm, strategy, current_step, results, execVars, harnessVars>>

\* one iteration of the while loop, up to the next blocking call
ExecLoop(oracle) ==
    /\ pc = "loop"
    /\ clock < MaxClock
    /\ LET idx == get_next_executable_step(plan)
       IN IF idx = 0
          THEN /\ Move("SYNTHESIZING", "synthesizing",
                       execution_results, completed_step_numbers)
               /\ UNCHANGED <<plan, current_step, results>>
          ELSE
          LET next_step == plan.steps[idx]
          IN IF ~validate_step_dependencies(next_step, completed_step_numbers)
             THEN /\ Move("SYNTHESIZING", "synthesizing",
                          execution_results, completed_step_numbers)
                  /\ UNCHANGED <<plan, current_step, results>>
             ELSE IF execute_step(next_step, oracle).raised
             THEN /\ Handler("execute_step failed")
                  /\ current_step' = next_step.step_number
                  /\ UNCHANGED <<plan, results>>
             ELSE
             LET result == execute_step(next_step, oracle).result
                 er == Append(execution_results, result)
                 cs == IF result.success
                       THEN Append(completed_step_numbers, next_step.step_number)
                       ELSE completed_step_numbers
             IN /\ current_step' = next_step.step_number
                /\ results' = Append(results, result)
                /\ plan' = [plan EXCEPT
                              !.steps[idx].completed = result.success,
                              !.steps[idx].result =
                                  IF result.success THEN "success" ELSE "failure"]
                /\ IF ~result.success /\ should_replan([len |-> 0, trigger |-> FALSE])
                   THEN Move("REPLANNING", "replanning", er, cs)
                   ELSE IF should_terminate_early(er, failure_threshold)
                        THEN Move("SYNTHESIZING", "synthesizing", er, cs)
                        ELSE /\ pc' = "loop"
                             /\ execution_results' = er
                             /\ completed_step_numbers' = cs
                             /\ UNCHANGED <<smVars, sm_call, outcome>>
    /\ UNCHANGED <<has_llm, strategy, execVars, harnessVars>>

\* Replan that goes back to the loop without the transition to EXECUTING
Replan_StaysReplanning(r) ==
    /\ pc = "replanning"
    /\ clock < MaxClock
    /\ LET g == replan_from_step(plan, current_step, has_llm, r)
       IN IF g.raised
          THEN Handler(g.error) /\ plan' = plan
          ELSE /\ plan' = g.plan
               /\ pc' = "loop"
               /\ UNCHANGED <<smVars, sm_call, outcome, execution_results,
                              completed_step_numbers>>
    /\ UNCHANGED <<has_llm, strategy, current_step, results, execVars, harnessVars>>

\* Replan that starts the list of completed step numbers again
Replan_ForgetsCompleted(r) ==
    /\ pc = "replanning"
    /\ clock < MaxClock
    /\ LET g == replan_from_step(plan, current_step, has_llm, r)
       IN IF g.raised
          THEN Handler(g.error) /\ plan' = plan
          ELSE /\ plan' = g.plan
               /\ Move("EXECUTING", "loop", execution_results, <<>>)
    /\ UNCHANGED <<has_llm, strategy, current_step, results, execVars, harnessVars>>

\* replan_from_step returns or raises; then the transition back to EXECUTING
Replan(r) ==
    /\ pc = "replanning"
    /\ clock < MaxClock
    /\ LET g == replan_from_step(plan, current_step, has_llm, r)
       IN IF g.raised
          THEN Handler(g.error) /\ plan' = plan
          ELSE /\ plan' = g.plan
               /\ Move("EXECUTING", "loop", execution_results, completed_step_numbers)
    /\ UNCHANGED <<has_llm, strategy, current_step, results, execVars, harnessVars>>

\* synthesizer.generate_report returns (ok) or raises; then the transition to DONE
Synthesize(ok) ==
    /\ pc = "synthesizing"
    /\ clock < MaxClock
    /\ IF ok
       THEN Move("DONE", "storing", execution_results, completed_step_numbers)
       ELSE Handler("generate_report failed")
    /\ UNCHANGED <<has_llm, strategy, plan, current_step, results, execVars, harnessVars>>

\* memory.store_research_report returns (ok) or raises; research() returns
StoreReport(ok) ==
    /\ pc = "storing"
    /\ clock < MaxClock
    /\ IF ok
       THEN /\ pc' = "idle"
            /\ outcome' = [kind |-> "report", error |-> ""]
            /\ execution_results' = <<>>
            /\ completed_step_numbers' = <<>>
            /\ UNCHANGED <<smVars, sm_call>>
       ELSE Handler("store_research_report failed")
    /\ UNCHANGED <<has_llm, strategy, plan, current_step, results, execVars, harnessVars>>

\* clear_session that replaces the context and leaves the history as it is
ClearSession_KeepsHistory ==
    /\ pc = "idle"
    /\ clock < MaxClock
    /\ SetM([M EXCEPT !.state = "IDLE", !.last_updated = clock + 1,
                      !.clock = clock + 1])
    /\ plan' = NoPlan
    /\ current_step' = 0
    /\ results' = <<>>
    /\ UNCHANGED <<sm_call, has_llm, pc, strategy, execution_results,
                   completed_step_numbers, outcome, execVars, harnessVars>>

\* clear_session(): a new AgentContext, state_machine.reset()
ClearSession ==
    /\ pc = "idle"
    /\ clock < MaxClock
    /\ SetM(reset([M EXCEPT !.state = "IDLE", !.last_updated = clock + 1,
                            !.clock = clock + 1]))
    /\ plan' = NoPlan
    /\ current_step' = 0
    /\ results' = <<>>
    /\ UNCHANGED <<sm_call, has_llm, pc, strategy, execution_results,
                   completed_step_numbers, outcome, execVars, harnessVars>>

\* the responses the planner can get from its LLM: generate_plan invokes it for
\* every strategy but "interleaved", replan_from_step always
PlanInputs ==
    IF has_llm /\ strategy # "interleaved" THEN LLMResponses ELSE {NoLLM}

ReplanInputs == IF has_llm THEN LLMResponses ELSE {NoLLM}

Next ==
    \/ \E strat \in {"decomposition_first", "interleaved"} : Research(strat)
    \/ \E r \in PlanInputs : GeneratePlan(r)
    \/ \E oracle \in StepOracles : ExecLoop(oracle)
    \/ \E r \in ReplanInputs : Replan(r)
    \/ \E ok \in BOOLEAN : Synthesize(ok)
    \/ \E ok \in BOOLEAN : StoreReport(ok)
    \/ ClearSession

Spec == Init /\ [][Next]_vars

(***************************************************************************)
(* agent.py: one research() call with its logs left out (SpecLive).  The   *)
(* workflow only writes to the clock, to last_updated, to the transition   *)
(* history and to context.results and never reads them, so they are left   *)
(* unchanged here and the call can be followed for as long as it runs.     *)
(* execution_results is read by should_terminate_early only after a step   *)
(* that succeeded: it holds at most MaxLoopResults results, no step        *)
(* succeeds beyond that, and a failed result beyond that is not appended.  *)
(* The planner has no LLM.                                                 *)
(***************************************************************************)
InitLive ==
    /\ state = "PLANNING"
    /\ last_updated = 0
    /\ transition_history = <<>>
    /\ clock = 0
    /\ sm_call = [from |-> "IDLE", to |-> "PLANNING", result |-> "True"]
    /\ has_llm = FALSE
    /\ pc = "planning"
    /\ strategy \in {"decomposition_first", "interleaved"}
    /\ plan = NoPlan
    /\ current_step = 0
    /\ results = <<>>
    /\ execution_results = <<>>
    /\ completed_step_numbers = <<>>
    /\ outcome = [kind |-> "running", error |-> ""]
    /\ exec_step = 0 /\ exec_oracle = 0 /\ exec_out = 0
    /\ ste_in = 0 /\ ste_out = 0 /\ tot = 0
    /\ EnginesIdle

LiveHandler(err) ==
    LET e == transition(M, "ERROR")
    IN /\ state' = e.m.state
       /\ sm_call' = Call(state, "ERROR", e)
       /\ pc' = "idle"
       /\ outcome' = IF e.raised
                     THEN [kind |-> "raised", error |-> "Invalid transition"]
                     ELSE [kind |-> "error_report", error |-> err]
       /\ execution_results' = <<>>
       /\ completed_step_numbers' = <<>>

LiveMove(target, nextpc, er, cs) ==
    LET t == transition(M, target)
    IN IF t.raised
       THEN LiveHandler("Invalid transition")
       ELSE /\ state' = t.m.state
            /\ sm_call' = Call(state, target, t)
            /\ pc' = nextpc
            /\ outcome' = [kind |-> "running", error |-> ""]
            /\ execution_results' = er
            /\ completed_step_numbers' = cs

LiveGeneratePlan ==
    /\ pc = "planning"
    /\ LET g == generate_plan(strategy, has_llm, NoLLM)
       IN IF g.raised
          THEN LiveHandler(g.error) /\ plan' = plan
          ELSE /\ plan' = g.plan
               /\ LiveMove("EXECUTING", "loop", <<>>, <<>>)
    /\ UNCHANGED <<last_updated, transition_history, clock, has_llm, strategy,
                   current_step, results, execVars, harnessVars>>

LiveExecLoop(oracle) ==
    /\ pc = "loop"
    /\ LET idx == get_next_executable_step(plan)
       IN IF idx = 0
          THEN /\ LiveMove("SYNTHESIZING", "synthesizing",
                           execution_results, completed_step_numbers)
               /\ UNCHANGED <<plan, current_step>>
          ELSE
          LET next_step == plan.steps[idx]
          IN IF ~validate_step_dependencies(next_step, completed_step_numbers)
             THEN /\ LiveMove("SYNTHESIZING", "synthesizing",
                              execution_results, completed_step_numbers)
                  /\ UNCHANGED <<plan, current_step>>
             ELSE IF execute_step(next_step, oracle).raised
             THEN /\ LiveHandler("execute_step failed")
                  /\ current_step' = next_step.step_number
                  /\ UNCHANGED plan
             ELSE
             LET result == execute_step(next_step, oracle).result
                 er == IF Len(execution_results) < MaxLoopResults
                       THEN Append(execution_results, result)
                       ELSE execution_results
                 cs == IF result.success
                       THEN Append(completed_step_numbers, next_step.step_number)
                       ELSE completed_step_numbers
             IN /\ result.success => Len(execution_results) < MaxLoopResults
                /\ current_step' = next_step.step_number
                /\ plan' = [plan EXCEPT
                              !.steps[idx].completed = result.success,
                              !.steps[idx].result =
                                  IF result.success THEN "success" ELSE "failure"]
                /\ IF ~result.success /\ should_replan([len |-> 0, trigger |-> FALSE])
                   THEN LiveMove("REPLANNING", "replanning", er, cs)
                   ELSE IF should_terminate_early(er, failure_threshold)
                        THEN LiveMove("SYNTHESIZING", "synthesizing", er, cs)
                        ELSE /\ pc' = "loop"
                             /\ execution_results' = er
                             /\ completed_step_numbers' = cs
                             /\ UNCHANGED <<state, sm_call, outcome>>
    /\ UNCHANGED <<last_updated, transition_history, clock, has_llm, strategy,
                   results, execVars, harnessVars>>

LiveReplan ==
    /\ pc = "replanning"
    /\ LET g == replan_from_step(plan, current_step, has_llm, NoLLM)
       IN IF g.raised
          THEN LiveHandler(g.error) /\ plan' = plan
          ELSE /\ plan' = g.plan
               /\ LiveMove("EXECUTING", "loop", execution_results,
                           completed_step_numbers)
    /\ UNCHANGED <<last_updated, transition_history, clock, has_llm, strategy,
                   current_step, results, execVars, harnessVars>>

LiveSynthesize(ok) ==
    /\ pc = "synthesizing"
    /\ IF ok
       THEN LiveMove("DONE", "storing", execution_results, completed_step_numbers)
       ELSE LiveHandler("generate_report failed")
    /\ UNCHANGED <<last_updated, transition_history, clock, has_llm, strategy, plan,
                   current_step, results, execVars, harnessVars>>

LiveStoreReport(ok) ==
    /\ pc = "storing"
    /\ IF ok
       THEN /\ pc' = "idle"
            /\ outcome' = [kind |-> "report", error |-> ""]
            /\ execution_results' = <<>>
            /\ completed_step_numbers' = <<>>
            /\ UNCHANGED <<state, sm_call>>
       ELSE LiveHandler("store_research_report failed")
    /\ UNCHANGED <<last_updated, transition_history, clock, has_llm, strategy, plan,
                   current_step, results, execVars, harnessVars>>

NextLive ==
    \/ LiveGeneratePlan
    \/ \E oracle \in StepOracles : LiveExecLoop(oracle)
    \/ LiveReplan
    \/ \E ok \in BOOLEAN : LiveSynthesize(ok)
    \/ \E ok \in BOOLEAN : LiveStoreReport(ok)

\* research() runs in one thread: while the call has not returned, its next
\* step is taken
SpecLive == InitLive /\ [][NextLive]_vars /\ WF_vars(NextLive)

(***************************************************************************)
(* agent.py and state_machine.py: two ResearchAgent instances in one       *)
(* process (SpecTwoAgents).  Each instance has its own AgentContext; both  *)
(* call the module-level state_machine, whose transition_history is the    *)
(* one list of that object.  research() is followed transition by          *)
(* transition; the calls of the two instances interleave freely.           *)
(***************************************************************************)
Agents == {1, 2}

\* the record transition works on when instance a calls it: a's context and
\* the state machine's history
AgentM(a) ==
    [state |-> agents.context[a].state,
     last_updated |-> agents.context[a].last_updated,
     transition_history |-> transition_history,
     clock |-> clock]

\* state_machine.get_transition_history(), whichever instance asks
get_transition_history == transition_history

\* the targets of the transitions research() makes from a state: PLANNING at
\* the start of a call, then the workflow's next state or the handler's ERROR
workflow_targets(s) ==
    CASE s \in {"IDLE", "DONE", "ERROR"} -> {"PLANNING"}
      [] s = "PLANNING"     -> {"EXECUTING", "ERROR"}
      [] s = "EXECUTING"    -> {"REPLANNING", "SYNTHESIZING", "ERROR"}
      [] s = "REPLANNING"   -> {"EXECUTING", "ERROR"}
      [] s = "SYNTHESIZING" -> {"DONE", "ERROR"}

InitTwoAgents ==
    /\ state = "IDLE"
    /\ last_updated = 0
    /\ transition_history = <<>>
    /\ clock = 0
    /\ sm_call = NoCall
    /\ InitOther
    /\ exec_step = 0 /\ exec_oracle = 0 /\ exec_out = 0
    /\ ste_in = 0 /\ ste_out = 0 /\ tot = 0
    /\ tree = 0 /\ react = 0 /\ rt_in = 0 /\ rt_out = 0
    /\ agents = [context |-> [a \in Agents |-> [state |-> "IDLE", last_updated |-> 0]],
                 caller |-> 0]

\* instance a: state_machine.transition(self.context, target, ...)
AgentTransition(a, target) ==
    /\ clock < MaxClock
    /\ Len(transition_history) < MaxSharedHistory
    /\ target \in workflow_targets(agents.context[a].state)
    /\ LET t == transition(AgentM(a), target)
       IN /\ agents' = [context |-> [agents.context EXCEPT ![a] =
                                        [state |-> t.m.state,
                                         last_updated |-> t.m.last_updated]],
                        caller |-> a]
          /\ transition_history' = t.m.transition_history
          /\ clock' = t.m.clock
          /\ sm_call' = Call(agents.context[a].state, target, t)
    /\ UNCHANGED <<state, last_updated, agentVars, execVars, ste_in, ste_out, tot,
                   tree, react, rt_in, rt_out>>

\* instance a between two research() calls: clear_session()
AgentClearSession(a) ==
    /\ clock < MaxClock
    /\ agents.context[a].state \in {"IDLE", "DONE", "ERROR"}
    /\ agents' = [context |-> [agents.context EXCEPT ![a] =
                                 [state |-> "IDLE", last_updated |-> clock + 1]],
                  caller |-> a]
    /\ transition_history' = reset(AgentM(a)).transition_history
    /\ clock' = clock + 1
    /\ UNCHANGED <<state, last_updated, sm_call, agentVars, execVars, ste_in, ste_out,
                   tot, tree, react, rt_in, rt_out>>

NextTwoAgents ==
    \/ \E a \in Agents, target \in AgentState : AgentTransition(a, target)
    \/ \E a \in Agents : AgentClearSession(a)

SpecTwoAgents == InitTwoAgents /\ [][NextTwoAgents]_vars

(***************************************************************************)
(* Properties                                                              *)
(***************************************************************************)
\* the transition table as the specification gives it
AllowedSet(s) ==
    IF s = "IDLE" THEN {"PLANNING", "ERROR"}
    ELSE IF s = "PLANNING" THEN {"EXECUTING", "ERROR", "IDLE"}
    ELSE IF s = "EXECUTING" THEN {"REPLANNING", "SYNTHESIZING", "ERROR", "IDLE"}
    ELSE IF s = "REPLANNING" THEN {"EXECUTING", "PLANNING", "ERROR", "IDLE"}
    ELSE IF s = "SYNTHESIZING" THEN {"DONE", "ERROR", "EXECUTING"}
    ELSE IF s = "DONE" THEN {"IDLE", "PLANNING"}
    ELSE {"IDLE", "PLANNING", "EXECUTING"}

\* C1: a call of transition on a context in state s with target t succeeds, and
\* leaves the context in t, exactly when t is in the allowed set of s in the
\* table; can_transition(s, t) gives the same verdict for every pair.
C1_TransitionIffAllowed ==
    /\ sm_call.result # "none" =>
          /\ (sm_call.result = "True") <=> (sm_call.to \in AllowedSet(sm_call.from))
          /\ (sm_call.result = "True") => state = sm_call.to
          /\ (sm_call.result = "ValueError") => state = sm_call.from
    /\ \A s \in AgentState, t \in AgentState :
          can_transition(s, t) <=> (t \in AllowedSet(s))

\* a transition from SYNTHESIZING back to EXECUTING has succeeded
C1_Witness ==
    /\ sm_call = [from |-> "SYNTHESIZING", to |-> "EXECUTING", result |-> "True"]
    /\ state = "EXECUTING"

ReadySteps(p) ==
    {i \in 1..Len(p.steps) :
        /\ p.steps[i].completed = FALSE
        /\ p.steps[i].dependencies \subseteq
              {p.steps[j].step_number : j \in {k \in 1..Len(p.steps) : p.steps[k].completed}}}

AllComplete(p) == \A i \in 1..Len(p.steps) : p.steps[i].completed

\* C3: for the plan held, get_next_executable_step returns None exactly when
\* every step is complete or no incomplete step has all its dependencies
\* completed; otherwise it returns the lowest-numbered incomplete step whose
\* dependencies are all completed.
C3_NextExecutableStep ==
    plan # NoPlan =>
        LET idx == get_next_executable_step(plan)
        IN /\ (idx = 0) <=> (AllComplete(plan) \/ ReadySteps(plan) = {})
           /\ idx # 0 =>
                 /\ idx \in ReadySteps(plan)
                 /\ \A j \in ReadySteps(plan) :
                       plan.steps[idx].step_number <= plan.steps[j].step_number

\* the scheduler passes over an incomplete first step and returns a later one
C3_Witness ==
    /\ pc = "loop"
    /\ Len(plan.steps) >= 2
    /\ ~plan.steps[1].completed
    /\ get_next_executable_step(plan) = 2

\* C4: when get_next_executable_step returns None while the plan still has an
\* incomplete step, the next thing the agent does is a transition to REPLANNING
\* (and not to SYNTHESIZING).
C4_DeadlockForcesReplanning ==
    [][(pc = "loop" /\ get_next_executable_step(plan) = 0 /\ ~AllComplete(plan))
          => state' = "REPLANNING"]_vars

Sequential(steps) == step_numbers(steps) = [i \in 1..Len(steps) |-> i]

\* C5: every plan that exists has at least one step and the step numbers 1..N
\* in order: a list of steps with a duplicate or with other numbers never becomes
\* a plan, ResearchPlan raises a validation error for it.
C5_PlanNumbersSequential ==
    /\ plan # NoPlan => (Len(plan.steps) >= 1 /\ Sequential(plan.steps))
    /\ \A i \in 1..Len(plan.steps) : plan.steps[i].step_number = i

\* steps proposed with numbers that are not 1..N have been refused: the call
\* ended with the validator's error and no plan was stored
C5_Witness ==
    /\ has_llm
    /\ plan = NoPlan
    /\ sm_call = [from |-> "PLANNING", to |-> "ERROR", result |-> "True"]
    /\ outcome = [kind |-> "error_report",
                  error |-> "Step numbers must be sequential starting from 1"]

\* C6: replan_from_step does not fail and returns a plan whose step numbers are
\* exactly 1..N.
C6_ReplanKeepsContiguity ==
    [][pc = "replanning" =>
          (pc' = "loop" /\ plan'.strategy = "replanned" /\ Sequential(plan'.steps))]_vars

PlanNumbers(p) == {p.steps[i].step_number : i \in 1..Len(p.steps)}

\* C7: in a plan returned by generate_plan every dependency of a step is the
\* number of a step of the plan and is not greater than the step's own number.
C7_BuiltPlanDependencies ==
    plan.strategy \in {"decomposition_first", "interleaved"} =>
        \A i \in 1..Len(plan.steps) :
            \A dep \in plan.steps[i].dependencies :
                dep \in PlanNumbers(plan) /\ dep <= plan.steps[i].step_number

\* a step of the proposal depends on a number no step of the proposal has
HasMissingDependency(steps) ==
    \E i \in 1..Len(steps) :
        \E dep \in steps[i].dependencies :
            dep \notin {steps[j].step_number : j \in 1..Len(steps)}

\* C8: when a step proposed by the LLM depends on a step number that is not in
\* the proposal, generate_plan returns the 4-step template plan instead.
C8_MissingDependencyFallsBack ==
    [][(pc = "planning" /\ has_llm /\ strategy = "decomposition_first") =>
          \A r \in LLMResponses :
              (GeneratePlan(r) /\ r.kind = "json"
                 /\ HasMissingDependency(_parse_plan_response(r))) =>
                    /\ plan'.steps = _generate_template_steps
                    /\ state' = "EXECUTING"]_vars

\* C9: when the LLM raises or its response gives no steps, generate_plan returns
\* the 4-step template plan and the session does not end in ERROR.
C9_PlannerFailureFallsBack ==
    [][(pc = "planning" /\ has_llm /\ strategy = "decomposition_first") =>
          \A r \in LLMResponses :
              (GeneratePlan(r) /\ (r.kind \in {"raise", "unparsable"} \/ r.steps = <<>>)) =>
                    /\ plan'.steps = _generate_template_steps
                    /\ state' = "EXECUTING"]_vars

Other(rs) == IF rs = "REACT" THEN "TREE_OF_THOUGHTS" ELSE "REACT"

Used(i) == exec_out.attempts[i].engine

\* C10 as stated: attempt 1 runs the nominal strategy, attempt 2 the other one,
\* attempt 3 the nominal one again.
C10_StrategyAlternates ==
    LET n == Len(exec_out.attempts)
    IN /\ n >= 1 => Used(1) = exec_step.reasoning_strategy
       /\ n >= 2 => Used(2) = Other(exec_step.reasoning_strategy)
       /\ n >= 3 => Used(3) = exec_step.reasoning_strategy

\* C10 amended: attempt 1 runs the nominal strategy and every retry (attempts 2
\* and 3) runs the other strategy.
C10_RetriesUseOtherStrategy ==
    LET n == Len(exec_out.attempts)
    IN /\ n >= 1 => Used(1) = exec_step.reasoning_strategy
       /\ n >= 2 => Used(2) = Other(exec_step.reasoning_strategy)
       /\ n >= 3 => Used(3) = Other(exec_step.reasoning_strategy)

\* a step of nominal strategy REACT has failed three attempts
C10_Witness ==
    /\ exec_step.reasoning_strategy = "REACT"
    /\ Len(exec_out.attempts) = 3
    /\ ~exec_out.result.success

\* whether attempt i (1-based) of the step given to execute_step succeeds, under
\* the behaviour the engines have on that attempt
AttemptSucceeds(i) ==
    _execute_step_with_strategy(exec_step, exec_oracle[i - 1], i - 1).success

\* C11: execute_step makes at most 3 attempts; it returns the successful result
\* right after the first attempt that succeeds, making no further attempt, and
\* it returns a failed result only after exactly 3 failed attempts.
C11_AtMostThreeAttempts ==
    exec_out # NoOut =>
        LET n == Len(exec_out.attempts)
        IN /\ n \in 1..3
           /\ \A i \in 1..n : exec_out.attempts[i].success = AttemptSucceeds(i)
           /\ \A i \in 1..(n - 1) : ~AttemptSucceeds(i)
           /\ exec_out.result.success => AttemptSucceeds(n)
           /\ ~exec_out.result.success => (n = 3 /\ ~AttemptSucceeds(3))

\* the first attempt failed, the second succeeded and no third one was made
C11_Witness ==
    /\ exec_out # NoOut
    /\ Len(exec_out.attempts) = 2
    /\ ~exec_out.attempts[1].success
    /\ exec_out.result.success
    /\ exec_oracle[2].does = "returns"

\* C12: an error raised during a step attempt never leaves execute_step: the
\* attempt counts as a failed attempt (a failed ToolResult), and the attempts
\* that remain are still made.
C12_AttemptErrorsAreContained ==
    exec_out # NoOut =>
        /\ ~exec_out.raised
        /\ \A i \in 1..Len(exec_out.attempts) :
              exec_oracle[i - 1].does = "raises" =>
                  /\ ~exec_out.attempts[i].success
                  /\ i < 3 => Len(exec_out.attempts) >= i + 1
        /\ (\A i \in 1..3 : exec_oracle[i - 1].does = "raises") =>
              /\ Len(exec_out.attempts) = 3
              /\ exec_out.result.tool_name = "reasoning_engine"
              /\ ~exec_out.result.success

\* the first attempt raised and a later attempt succeeded
C12_Witness ==
    /\ exec_out # NoOut
    /\ exec_oracle[0].does = "raises"
    /\ Len(exec_out.attempts) >= 2
    /\ exec_out.result.success

\* C13: an attempt during which the engine's LLM fails is a failed attempt: it
\* is never reported as successful.
C13_OracleFailureIsFailedAttempt ==
    exec_out # NoOut =>
        \A i \in 1..Len(exec_out.attempts) :
            exec_oracle[i - 1].does = "llm_fails" => ~exec_out.attempts[i].success

\* the number of failed results in a list
FailedIn(rs) == Cardinality({i \in 1..Len(rs) : rs[i].success = FALSE})

\* C14: should_terminate_early is false for every list of fewer than 2 results;
\* for a list of at least 2 results it is true exactly when failed/total is
\* strictly greater than the threshold, so 1 failed of 2 at threshold 0.5 gives
\* false.
C14_TerminateEarlyStrictlyAbove ==
    ste_out.called =>
        LET rs == ste_in.results
            t == ste_in.threshold
        IN /\ Len(rs) < 2 => ste_out.value = FALSE
           /\ Len(rs) >= 2 =>
                 (ste_out.value <=> FailedIn(rs) * t.den > t.num * Len(rs))
           /\ (Len(rs) = 2 /\ FailedIn(rs) = 1 /\ 2 * t.num = t.den) =>
                 ste_out.value = FALSE

\* 1 failed result of 2 at the default threshold gave false
C14_Witness ==
    /\ ste_out.called
    /\ Len(ste_in.results) = 2
    /\ FailedIn(ste_in.results) = 1
    /\ ste_in.threshold = failure_threshold
    /\ ste_out.value = FALSE

\* C15: after every step result recorded, if should_terminate_early over the
\* results of the run is true, the agent executes no further step and goes to
\* SYNTHESIZING.
C15_BreakerAfterEveryResult ==
    [][(pc = "loop" /\ Len(results') = Len(results) + 1
          /\ should_terminate_early(execution_results', failure_threshold))
            => (state' = "SYNTHESIZING" /\ pc' = "synthesizing")]_vars

\* the completed steps of p with a number below k, in the order of the plan
KeptSteps(p, k) ==
    SelectSeq(p.steps, LAMBDA st : st.completed /\ st.step_number < k)

\* C16: whenever a step fails all its attempts, its failed result is appended
\* to the results, the agent goes EXECUTING -> REPLANNING, replans from the
\* failed step's number (the new plan keeps the completed steps below it and
\* has regenerated steps from that number on) and goes back to EXECUTING; the
\* session does not enter ERROR.
C16_FailedStepIsReplanned ==
    [][/\ (pc = "loop" /\ Len(results') = Len(results) + 1
              /\ ~results'[Len(results')].success)
            => (state' = "REPLANNING" /\ pc' = "replanning"
                  /\ current_step' \in PlanNumbers(plan))
       /\ pc = "replanning"
            => /\ state' = "EXECUTING"
               /\ pc' = "loop"
               /\ plan'.steps # KeptSteps(plan, current_step)
               /\ SubSeq(plan'.steps, 1, Len(KeptSteps(plan, current_step)))
                     = KeptSteps(plan, current_step)]_vars

\* C17: the plan replan_from_step returns starts with the completed steps of the
\* original plan that have a number below the replanning point, unchanged, and
\* holds no other step of the original plan: every step after them is a new
\* one, numbered from the replanning point on, not completed and without result.
C17_ReplanKeepsCompletedPrefix ==
    [][(pc = "replanning" /\ pc' = "loop") =>
          LET kept == KeptSteps(plan, current_step)
              n == Len(kept)
          IN /\ Len(plan'.steps) >= n
             /\ SubSeq(plan'.steps, 1, n) = kept
             /\ \A i \in 1..n :
                   plan'.steps[i].completed /\ plan'.steps[i].result = "success"
             /\ \A i \in (n + 1)..Len(plan'.steps) :
                   /\ plan'.steps[i].step_number >= current_step
                   /\ ~plan'.steps[i].completed
                   /\ plan'.steps[i].result = "none"]_vars

\* step 2 failed and the plan was replanned from 2: completed step 1 is kept,
\* step 2 is a new step
C17_Witness ==
    /\ pc = "loop"
    /\ plan.strategy = "replanned"
    /\ current_step = 2
    /\ Len(plan.steps) >= 2
    /\ plan.steps[1].completed /\ plan.steps[1].result = "success"
    /\ ~plan.steps[2].completed /\ plan.steps[2].result = "none"

\* C18: in the plan replan_from_step returns, every dependency of a regenerated
\* step is a number below the replanning point that belongs to a completed step
\* of the returned plan.
C18_RegeneratedDependenciesCompleted ==
    [][(pc = "replanning" /\ pc' = "loop") =>
          \A i \in 1..Len(plan'.steps) :
              plan'.steps[i].step_number >= current_step =>
                  \A dep \in plan'.steps[i].dependencies :
                      /\ dep < current_step
                      /\ dep \in completed_numbers(plan')]_vars

\* C19: when plan generation raises during PLANNING the session moves to ERROR
\* and research() returns the error report; in ERROR the agent runs nothing,
\* and the state leaves ERROR only by a new research() (ERROR -> PLANNING) or by
\* clear_session() (a new context in IDLE).
C19_PlanningFailureEndsInError ==
    [][/\ (pc = "planning" /\ pc' # "loop")
            => (state' = "ERROR" /\ pc' = "idle" /\ outcome'.kind = "error_report")
       /\ state = "ERROR" => pc = "idle"
       /\ (state = "ERROR" /\ state' # "ERROR")
            => \/ (state' = "PLANNING" /\ pc' = "planning"
                     /\ outcome'.kind = "running")
               \/ (state' = "IDLE" /\ pc' = "idle" /\ plan' = NoPlan
                     /\ results' = <<>> /\ transition_history' = <<>>)]_vars

\* the LLM's response gave no steps, no plan could be built and research()
\* returned the error report with the context in ERROR
C19_Witness ==
    /\ state = "ERROR"
    /\ pc = "idle"
    /\ sm_call = [from |-> "PLANNING", to |-> "ERROR", result |-> "True"]
    /\ outcome = [kind |-> "error_report", error |-> "min_items"]

\* C20: one tree search creates at most 1 + max_depth * max_thoughts_per_level
\* nodes: with depth 4 and 3 thoughts per level the tree never holds more than
\* 13 nodes.
C20_TreeSizeBound ==
    /\ tot.thought_tree <= 1 + max_depth * max_thoughts_per_level
    /\ (max_depth = 4 /\ max_thoughts_per_level = 3) => tot.thought_tree <= 13

\* C21: the search stops at the first depth at whose end two or more solution
\* candidates have been collected, whether or not max_depth is reached: at
\* such a level end the search returns, the depth advances only while fewer
\* than two candidates are known, and after the return no node is generated.
C21_StopsAtFirstDepthWithTwoCandidates ==
    [][/\ (tot.phase = "expanding" /\ tot.pending = 0 /\ tot.solution_candidates >= 2)
            => (tot'.phase = "returned" /\ tot'.depth = tot.depth
                  /\ tot'.thought_tree = tot.thought_tree)
       /\ tot'.depth # tot.depth
            => (tot'.depth = tot.depth + 1 /\ tot.solution_candidates < 2)
       /\ tot.phase = "returned" => tot'.thought_tree = tot.thought_tree]_vars

\* the search returned at the end of depth 2 with three candidates, two depths
\* short of max_depth
C21_Witness ==
    /\ tot.phase = "returned"
    /\ tot.depth = 2
    /\ tot.solution_candidates = 3
    /\ tot.next_level > 0

\* the nodes of the tree that are solution candidates, and its childless
\* nodes other than the root
CandidateNodes == {n \in Range(tree.thought_tree) : n.is_candidate}
LeafNodes == {n \in Range(tree.thought_tree) : n.children = <<>> /\ n.depth > 0}

\* C22: the result of a search is the solution candidate with the highest
\* score when there is one; otherwise the childless node other than the root
\* with the highest score; otherwise the no-solution result with score 0.0 and
\* an empty reasoning path.
C22_BestSolutionSelection ==
    tree.phase = "returned" =>
        LET best == tree.best_solution
            BestOf(nodes, type) ==
                /\ best.type = type
                /\ \E n \in nodes : n.id = best.thought
                                      /\ n.quality_score = best.quality_score
                /\ \A n \in nodes : n.quality_score <= best.quality_score
        IN IF CandidateNodes # {} THEN BestOf(CandidateNodes, "solution_candidate")
           ELSE IF LeafNodes # {} THEN BestOf(LeafNodes, "leaf_node")
           ELSE /\ best.type = "no_solution"
                /\ best.quality_score = 0
                /\ best.reasoning_path = <<>>

\* a search returned its second candidate, which scores higher than the first
\* and the third
C22_Witness ==
    /\ tree.phase = "returned"
    /\ Len(tree.solution_candidates) = 3
    /\ tree.best_solution.type = "solution_candidate"
    /\ tree.best_solution.thought = tree.solution_candidates[2]
    /\ tree.thought_tree[tree.solution_candidates[1] + 1].quality_score
         < tree.best_solution.quality_score
    /\ tree.thought_tree[tree.solution_candidates[3] + 1].quality_score
         < tree.best_solution.quality_score

\* the depth whose nodes current_level was chosen from, and the nodes of that
\* depth that score at least quality_threshold below max_depth
AdmittedDepth == IF tree.phase = "returned" THEN tree.depth ELSE tree.depth - 1
Qualifying ==
    {n \in Range(tree.thought_tree) :
        n.depth = AdmittedDepth /\ n.quality_score >= quality_threshold
          /\ n.depth < max_depth}

\* C28: a node is admitted to the next level only if it scores at least
\* quality_threshold and lies above max_depth; at most max_thoughts_per_level
\* nodes are admitted per level; and when more qualify, every admitted node
\* scores at least as high as every qualifying node that was pruned.
C28_AdmissionToNextLevel ==
    AdmittedDepth >= 1 =>
        LET admitted == {n \in Range(tree.thought_tree) :
                            n.id \in Range(tree.current_level)}
        IN /\ admitted \subseteq Qualifying
           /\ Cardinality(admitted) = Len(tree.current_level)
           /\ Len(tree.current_level) <= max_thoughts_per_level
           /\ Cardinality(Qualifying) <= max_thoughts_per_level
                => admitted = Qualifying
           /\ \A a \in admitted : \A q \in Qualifying \ admitted :
                  a.quality_score >= q.quality_score

\* four nodes of depth 2 qualified; the one pruned scores 0.6 and was generated
\* before an admitted node that scores 0.7
C28_Witness ==
    /\ tree.phase = "expanding"
    /\ tree.depth = 3
    /\ Cardinality(Qualifying) = 4
    /\ Len(tree.current_level) = 3
    /\ \E q \in Qualifying : \E a \in Qualifying :
          /\ q.id \notin Range(tree.current_level)
          /\ a.id \in Range(tree.current_level)
          /\ q.quality_score = 6 /\ a.quality_score = 7 /\ q.id < a.id

\* C29: every node goes from pending to evaluated when it is scored and then
\* to expanded or terminal, so that when the search ends no scored node is
\* still pending.
C29_NoScoredNodePendingAtEnd ==
    tree.phase = "returned" =>
        \A n \in Range(tree.thought_tree) :
            n.id # 0 => n.state \in {"evaluated", "expanded", "terminal"}

\* how often id occurs in the list ids
Occurrences(id, ids) == Cardinality({k \in DOMAIN ids : ids[k] = id})

\* C30: the node table is a tree with a single root: exactly one node, the root
\* at depth 0, has no parent; every other node has an id of its own, a parent
\* in the table whose depth is one less, and occurs exactly once in the
\* children list of that parent.
C30_NodeTableIsTree ==
    LET T == tree.thought_tree
    IN /\ {i \in DOMAIN T : T[i].parent_id = None} = {1}
       /\ T[1].id = 0 /\ T[1].depth = 0
       /\ \A i \in DOMAIN T : \A j \in DOMAIN T : i # j => T[i].id # T[j].id
       /\ \A i \in DOMAIN T \ {1} :
             \E j \in DOMAIN T :
                /\ T[j].id = T[i].parent_id
                /\ T[j].depth = T[i].depth - 1
                /\ Occurrences(T[i].id, T[j].children) = 1

\* a tree of seven nodes that reaches depth 4 and has a node with two children
C30_Witness ==
    /\ Len(tree.thought_tree) = MaxNodes
    /\ \E n \in Range(tree.thought_tree) : n.depth = max_depth
    /\ \E n \in Range(tree.thought_tree) : n.depth > 0 /\ Len(n.children) = 2

\* C23: the ReAct loop ends after at most MAX_REASONING_ITERATIONS iterations
\* and always returns an answer, the LLM's final answer or the one written
\* from the history, never no answer and never an empty one.
C23_AlwaysAnAnswer ==
    /\ react.iteration <= MAX_REASONING_ITERATIONS
    /\ react.phase = "returned" => react.final_answer \notin {"None", ""}

\* C25: execute_reasoning runs the engine named by an explicit strategy; with
\* "auto" it runs the tree search exactly when the tree search's score is
\* strictly higher than the ReAct score, so equal scores run ReAct.
C25_RouterDispatch ==
    rt_out.called =>
        LET tree_points == rt_in.task.tot_indicators
                             + (IF rt_in.task.long_context THEN 1 ELSE 0)
                             + (IF rt_in.task.long_task THEN 1 ELSE 0)
            react_points == rt_in.task.react_indicators
        IN /\ rt_in.strategy = "react" => rt_out.engine = "REACT"
           /\ rt_in.strategy = "tree_of_thoughts" => rt_out.engine = "TREE_OF_THOUGHTS"
           /\ rt_in.strategy = "auto" =>
                 /\ rt_out.engine = "TREE_OF_THOUGHTS" <=> tree_points > react_points
                 /\ tree_points = react_points => rt_out.engine = "REACT"
                 /\ rt_out.engine \in {"REACT", "TREE_OF_THOUGHTS"}

\* with "auto", one tree-search indicator and a long task against two ReAct
\* indicators: a tie at 2, and ReAct ran
C25_Witness ==
    /\ rt_out = [called |-> TRUE, engine |-> "REACT"]
    /\ rt_in.strategy = "auto"
    /\ rt_in.task = [tot_indicators |-> 1, react_indicators |-> 2,
                     long_context |-> FALSE, long_task |-> TRUE]

\* the history is continued: nothing of it is removed or changed
Continued(h, g) == Len(g) >= Len(h) /\ SubSeq(g, 1, Len(h)) = h

\* C24 as stated: the transition history is append-only; every successful
\* transition appends exactly one entry, the new state, and no operation of
\* the state machine or of the agent removes or changes an entry.
C24_HistoryAppendOnly ==
    [][/\ Continued(transition_history, transition_history')
       /\ state' # state => transition_history' = Append(transition_history, state')]_vars

\* C24: every successful transition appends exactly one entry, the new state;
\* a failed one leaves the history alone; entries are never changed, and they are
\* removed only all at once, by reset(), which clear_session() calls.
C24_HistoryAppendOrReset ==
    [][\/ transition_history' = transition_history /\ state' = state
       \/ /\ transition_history' = Append(transition_history, state')
          /\ sm_call'.result = "True" /\ sm_call'.to = state'
       \/ /\ transition_history' = <<>>
          /\ pc = "idle" /\ pc' = "idle" /\ state' = "IDLE"
          /\ plan' = NoPlan /\ results' = <<>>]_vars

\* a research ran to DONE, four transitions, and clear_session() emptied the
\* history
C24_Witness ==
    /\ state = "IDLE"
    /\ transition_history = <<>>
    /\ sm_call = [from |-> "SYNTHESIZING", to |-> "DONE", result |-> "True"]
    /\ outcome.kind = "report"

RECURSIVE WorkflowTail(_)
\* EXECUTING, any number of (REPLANNING, EXECUTING), SYNTHESIZING, DONE
WorkflowTail(h) ==
    \/ h = <<"EXECUTING", "SYNTHESIZING", "DONE">>
    \/ /\ Len(h) >= 5
       /\ h[1] = "EXECUTING" /\ h[2] = "REPLANNING"
       /\ WorkflowTail(SubSeq(h, 3, Len(h)))

\* the transitions of the last research() call: from its PLANNING on
LastCall(h) ==
    LET i == CHOOSE i \in DOMAIN h :
                 h[i] = "PLANNING" /\ \A j \in (i + 1)..Len(h) : h[j] # "PLANNING"
    IN SubSeq(h, i, Len(h))

\* C26: a research() call that does not fail passes through PLANNING,
\* EXECUTING, any number of (REPLANNING, EXECUTING), SYNTHESIZING and DONE in
\* that order; steps are executed only in EXECUTING, SYNTHESIZING is entered
\* only when the execution loop has ended and DONE only when the synthesizer
\* has returned.
C26_WorkflowOrder ==
    [][/\ pc' = "planning" => state' = "PLANNING"
       /\ pc' = "loop" => state' = "EXECUTING"
       /\ pc' = "replanning" => state' = "REPLANNING"
       /\ pc' = "synthesizing" => state' = "SYNTHESIZING"
       /\ pc' = "storing" => state' = "DONE"
       /\ Len(results') > Len(results) => (pc = "loop" /\ state = "EXECUTING")
       /\ (state' = "SYNTHESIZING" /\ state # "SYNTHESIZING")
            => (pc = "loop" /\ pc' = "synthesizing")
       /\ (state' = "DONE" /\ state # "DONE")
            => (pc = "synthesizing" /\ pc' = "storing")
       /\ (pc = "storing" /\ outcome'.kind = "report")
            => /\ state' = "DONE"
               /\ \E i \in DOMAIN transition_history' :
                     transition_history'[i] = "PLANNING"
               /\ Head(LastCall(transition_history')) = "PLANNING"
               /\ WorkflowTail(Tail(LastCall(transition_history')))]_vars

\* a research() that replanned once returned its report
C26_Witness ==
    /\ pc = "idle"
    /\ outcome.kind = "report"
    /\ state = "DONE"
    /\ transition_history = <<"PLANNING", "EXECUTING", "REPLANNING", "EXECUTING",
                              "SYNTHESIZING", "DONE">>

C31_ReasoningPathRootToNode ==
    (tree.phase = "returned" /\ tree.best_solution.type # "no_solution") =>
        LET T == tree.thought_tree
            path == tree.best_solution.reasoning_path
        IN /\ Len(path) >= 2
           /\ path[1] = 0
           /\ path[Len(path)] = tree.best_solution.thought
           /\ \A k \in 1..Len(path) : T[path[k] + 1].depth = k - 1
           /\ \A k \in 1..(Len(path) - 1) : T[path[k + 1] + 1].parent_id = path[k]

\* the selected node lies at depth 3 and is not the first child of its parent
C31_Witness ==
    /\ tree.phase = "returned"
    /\ tree.best_solution.type = "solution_candidate"
    /\ Len(tree.best_solution.reasoning_path) = 4
    /\ LET T == tree.thought_tree
           p == T[tree.best_solution.thought + 1].parent_id
       IN T[p + 1].children[1] # tree.best_solution.thought

\* C32: when a tool call fails inside the ReAct loop, because the tool is
\* unknown or because it raises, nothing is propagated: the text of the
\* failure is the observation of that iteration, is recorded in the history
\* and appended to the context, and the loop goes on.
C32_ToolFailureBecomesObservation ==
    (react.phase = "loop" /\ react.iteration > 0
       /\ react.observation.is_tool_result /\ ~react.observation.success) =>
        /\ react.observation.error_message \in {"Tool not found", "Error executing tool",
                                                "str(e)"}
        /\ react.reasoning_history[Len(react.reasoning_history)].text
             = react.observation.error_message
        /\ react.context[Len(react.context)] = react.observation.error_message

\* C33: the active plan never has more than MAX_PLAN_STEPS steps, whether it
\* comes from generate_plan or from replan_from_step, after any number of
\* replans.
C33_PlanWithinMaxSteps ==
    Len(plan.steps) <= MAX_PLAN_STEPS

\* C34: every research() call terminates: whatever the steps' outcomes, also
\* when a step fails again after each replan, the execution loop exits and the
\* call returns with the session in DONE or ERROR.
C34_ResearchTerminates ==
    <>(pc = "idle" /\ state \in {"DONE", "ERROR"})

\* C35: an attempt run with the tree search can succeed: whenever the tree
\* search returns a selected solution, _process_reasoning_result makes the
\* attempt a successful ToolResult.
C35_TreeSearchAttemptSucceeds ==
    exec_out # NoOut =>
        \A i \in 1..Len(exec_out.attempts) :
            (exec_out.attempts[i].engine = "TREE_OF_THOUGHTS"
               /\ exec_oracle[i - 1].does = "returns") => exec_out.attempts[i].success

\* C36: research() never lets an exception escape: wherever a failure can be
\* caught during research() (PLANNING, EXECUTING, REPLANNING, SYNTHESIZING, and
\* DONE while the finished report is being stored) the handler's transition to
\* ERROR is allowed, so no call ends with the handler's own ValueError.
C36_NoExceptionEscapes ==
    /\ pc \in {"planning", "loop", "replanning", "synthesizing", "storing"}
          => can_transition(state, "ERROR")
    /\ outcome.kind # "raised"

\* C37: the step the workflow passes to execute_step is a step of the active
\* plan that is not complete and whose dependencies are all numbers of completed
\* steps of the active plan; executing it changes no other step, and a replan
\* keeps every completed step below the replanning point as it is, so a step
\* marked complete is never executed again.
C37_OnlyReadyStepsExecuted ==
    [][/\ (pc = "loop" /\ Len(results') = Len(results) + 1) =>
             \E i \in 1..Len(plan.steps) :
                /\ plan.steps[i].step_number = current_step'
                /\ ~plan.steps[i].completed
                /\ plan.steps[i].dependencies \subseteq completed_numbers(plan)
                /\ Len(plan'.steps) = Len(plan.steps)
                /\ \A j \in 1..Len(plan.steps) :
                      j # i => /\ plan'.steps[j] = plan.steps[j]
                               /\ plan.steps[j].step_number # current_step'
       /\ (pc = "replanning" /\ pc' = "loop") =>
             \A j \in 1..Len(plan.steps) :
                (plan.steps[j].completed /\ plan.steps[j].step_number < current_step)
                   => /\ j <= Len(plan'.steps)
                      /\ plan'.steps[j] = plan.steps[j]]_vars

\* after a replan, a new step with dependencies was executed with success while
\* the completed step kept by the replan is still complete
C37_Witness ==
    /\ pc = "loop"
    /\ plan.strategy = "replanned"
    /\ \E i \in 2..Len(plan.steps) :
          /\ plan.steps[i].step_number = current_step
          /\ plan.steps[i].completed
          /\ plan.steps[i].dependencies # {}
          /\ plan.steps[1].completed

\* C38: while the execution loop runs, every number of a step marked complete
\* in the active plan is in the workflow's own list completed_step_numbers, so
\* validate_step_dependencies passes for the step get_next_executable_step
\* returns and the loop never leaves through "Dependencies not met".
C38_CompletedStepsAreListed ==
    pc \in {"loop", "replanning"} =>
        /\ completed_numbers(plan) \subseteq Range(completed_step_numbers)
        /\ (pc = "loop" /\ get_next_executable_step(plan) # 0) =>
               validate_step_dependencies(plan.steps[get_next_executable_step(plan)],
                                          completed_step_numbers)

\* after a replan the scheduler returns a step with dependencies, all of them
\* in the workflow's list
C38_Witness ==
    /\ pc = "loop"
    /\ plan.strategy = "replanned"
    /\ completed_step_numbers # <<>>
    /\ get_next_executable_step(plan) # 0
    /\ plan.steps[get_next_executable_step(plan)].dependencies # {}
    /\ plan.steps[get_next_executable_step(plan)].dependencies
          \subseteq Range(completed_step_numbers)

\* C39: for one agent, after any sequence of research() and clear_session()
\* calls, the transition history is a valid state sequence (every entry is an
\* allowed successor of the entry before it) and, when it is not empty, its last
\* entry is the context's current state.
C39_HistoryIsValidSequence ==
    /\ validate_state_sequence(transition_history)
    /\ transition_history # <<>> =>
          transition_history[Len(transition_history)] = state

\* a clear_session() and two research() calls: the first call ended in ERROR,
\* the second has reached EXECUTING, and the history joins the two
C39_Witness ==
    /\ Len(transition_history) >= 4
    /\ clock > Len(transition_history)
    /\ transition_history[2] = "ERROR"
    /\ transition_history[3] = "PLANNING"
    /\ state = "EXECUTING"

\* C40: the sessions of two agents in one process are isolated: a transition
\* or a clear_session() made by one instance changes neither the context nor
\* the transition history the other instance observes.
C40_SessionsIsolated ==
    [][\A a \in Agents :
          (agents'.caller = a /\ agents' # agents) =>
             /\ \A b \in Agents \ {a} : agents'.context[b] = agents.context[b]
             /\ get_transition_history' = get_transition_history]_vars

====
